---------------------------- MODULE Spec2Model ----------------------------
(***************************************************************************)
(* A model of the weighted-heap load balancer of src/main.go: the node     *)
(* pool (an array read as an implicit binary heap), Heapify, SetProps,     *)
(* the request handler loadBalancer with the proxy ErrorHandler that       *)
(* retries and fails over, and the periodic HealthCheck.                   *)
(*                                                                         *)
(* Nodes are named by their insertion index 1..N (main appends them in     *)
(* the order of the configured list, and a node's URL is its identity).    *)
(* Array positions are 0-based as in the source; position i of the Go      *)
(* slice is nodes[i+1] here.                                               *)
(*                                                                         *)
(* Weights.  The source keeps a float64 that starts at 1 and is only ever  *)
(* halved, doubled or divided by 3.  Halving and doubling are exact in     *)
(* binary floating point, and the rounding of a division by 3 is far       *)
(* smaller than the gap between two distinct values 2^a/3^b of the sizes   *)
(* reached here, so a weight is modelled by the exponent pair              *)
(* [e2 |-> a, e3 |-> b] standing for 2^a / 3^b, compared exactly.          *)
(* (Underflow to 0 after some 1075 unanswered halvings is outside the      *)
(* bounds of this model.)                                                  *)
(*                                                                         *)
(* Spec and its variants run Heapify and SetProps as single steps; RaceSpec *)
(* and WorkersSpec run them statement by statement, with the mutexes, for   *)
(* what depends on how the goroutines interleave inside them.              *)
(***************************************************************************)
EXTENDS Integers, Sequences, FiniteSets, TLC

\* ------------------------------------------------------------- bounds
\* Largest pool size; Init draws the configured size from 1..MaxNodes.
MaxNodes == 3
\* Number of events from outside over a behaviour: requests that arrive plus
\* ticks of the health-check ticker.
MaxEvents == 2
\* The pool size of WideSpec: a heap of three levels.
WideNodes == 4
\* Where the request counter saturates in the sequential scenario SeqSpec.
SeqCap == 40
\* Largest pool size of FrameSpec, whose Init draws the pool Heapify is
\* applied to.
FrameNodes == 4

\* ------------------------------------------------------------ constants
\* ErrorHandler: same-node retries while retries < 3.
RetryLimit == 3
\* loadBalancer: a request entering with attempts > 3 is rejected.
AttemptsLimit == 3
\* ErrorHandler: the failing node is marked dead when attempts >= 3.
DeadAfter == 3

\* One worker (goroutine) per request in flight.
Workers == {1, 2}

VARIABLES
    nodes,      \* NodePool.nodes: sequence of node ids, a permutation of 1..N
    active,     \* Node.Active, by node id
    weight,     \* Node.weight, by node id
    req,        \* per worker: the request it is handling (see IdleReq)
    hpc,        \* health monitor: "wait" | "read" | "set" | "repair"
    hi,         \* health monitor: loop index i of HealthCheck (0-based)
    hn,         \* health monitor: loop variable n of HealthCheck (a node id, 0: none)
    started,    \* number of requests accepted so far
    cycles,     \* number of health-check cycles started so far
    probed,     \* history: the nodes the running health cycle has probed, in order
    stk,        \* per thread: the Heapify calls in progress, innermost last
    lock,       \* the node mutexes held exclusively: records [node, by]
    hw          \* health monitor: the weight SetProps loaded

vars == <<nodes, active, weight, req, hpc, hi, hn, started, cycles,
          probed, stk, lock, hw>>

poolVars == <<nodes, active, weight>>
healthVars == <<hpc, hi, hn, cycles>>
\* What only the statement-level actions of RaceSpec change.
fineVars == <<stk, lock, hw>>

\* The health monitor's goroutine, next to the workers 1, 2, ...
Monitor == 0
Threads == Workers \cup {Monitor}

N == Len(nodes)
Ids == 1..N

\* ------------------------------------------------------------- weights
One == [e2 |-> 0, e3 |-> 0]

RECURSIVE Pow(_, _)
Pow(b, k) == IF k = 0 THEN 1 ELSE b * Pow(b, k - 1)

Min(a, b) == IF a < b THEN a ELSE b

\* w / 2
Half(w) == [w EXCEPT !.e2 = @ - 1]
\* w * 2
Double(w) == [w EXCEPT !.e2 = @ + 1]
\* w / 3.0
Third(w) == [w EXCEPT !.e3 = @ + 1]

\* a < b, for a = 2^a.e2 / 3^a.e3 and b alike
Less(a, b) ==
    LET m == Min(a.e2, b.e2)
    IN  Pow(2, a.e2 - m) * Pow(3, b.e3) < Pow(2, b.e2 - m) * Pow(3, a.e3)

Leq(a, b) == ~Less(b, a)


\* ---------------------------------------------------------------- pool
\* The shared pool state as one value: what Heapify and SetProps work on.
Pool == [nodes |-> nodes, active |-> active, weight |-> weight]

\* np.nodes[i], i 0-based
NodeAt(p, i) == p.nodes[i + 1]
\* np.nodes[i].getWeight()
WeightAt(p, i) == p.weight[NodeAt(p, i)]
\* np.nodes[i].isActive()
ActiveAt(p, i) == p.active[NodeAt(p, i)]

\* NodePool.Swap
Swap(p, i, j) ==
    [p EXCEPT !.nodes = [@ EXCEPT ![i + 1] = p.nodes[j + 1],
                                  ![j + 1] = p.nodes[i + 1]]]

\* A variant of Decay that halves the weight whatever the root flag.
DecayAlways(p, idx, root) ==
    [p EXCEPT !.weight[NodeAt(p, idx)] = Half(@)]

\* Heapify, the decay step: if root { np.nodes[idx].weight /= 2 }
Decay(p, idx, root) ==
    IF root THEN [p EXCEPT !.weight[NodeAt(p, idx)] = Half(@)] ELSE p

\* A variant of Largest in which a child of equal weight wins too.
LargestOnTies(p, idx) ==
    LET n     == Len(p.nodes)
        left  == 2 * idx + 1
        right == 2 * idx + 2
        l1    == IF left < n /\ ActiveAt(p, left)
                      /\ ~Less(WeightAt(p, left), WeightAt(p, idx))
                 THEN left ELSE idx
    IN  IF right < n /\ ActiveAt(p, right)
            /\ ~Less(WeightAt(p, right), WeightAt(p, l1))
        THEN right ELSE l1

\* Heapify, the choice of largest among idx and its in-bounds, active children
\* of strictly greater weight (left first, then right against the winner).
Largest(p, idx) ==
    LET n     == Len(p.nodes)
        left  == 2 * idx + 1
        right == 2 * idx + 2
        l1    == IF left < n /\ ActiveAt(p, left)
                      /\ Less(WeightAt(p, idx), WeightAt(p, left))
                 THEN left ELSE idx
    IN  IF right < n /\ ActiveAt(p, right)
            /\ Less(WeightAt(p, l1), WeightAt(p, right))
        THEN right ELSE l1

\* A variant of Restore that leaves the halved weight as it is.
RestoreNothing(p, idx, root) == p

\* Heapify, before the swap: if root { np.nodes[idx].weight *= 2 }
Restore(p, idx, root) ==
    IF root THEN [p EXCEPT !.weight[NodeAt(p, idx)] = Double(@)] ELSE p

\* Heapify, the corrective pass: the child exists and its weight is < 1
NeedsPass(p, child) ==
    child < Len(p.nodes) /\ Less(WeightAt(p, child), One)

\* The element of a one-element set.  Heapify passes every intermediate pool
\* through one, so that each is computed once.
The(S) == CHOOSE x \in S : TRUE

RECURSIVE Heapify(_, _, _)
\* NodePool.Heapify(idx, root), run without interleaving: the decay step, the
\* swap with the largest child followed by the recursion on its position, then
\* the corrective pass on the left child and the one on the right child.
Heapify(p, idx, root) ==
    LET left  == 2 * idx + 1
        right == 2 * idx + 2
        Sift(p1) ==
            LET largest == Largest(p1, idx)
            IN  IF largest # idx
                THEN Heapify(Swap(Restore(p1, idx, root), largest, idx),
                             largest, FALSE)
                ELSE p1
        Pass(q, child) ==
            IF NeedsPass(q, child) THEN Heapify(q, child, FALSE) ELSE q
    IN  The({ Pass(p3, right) :
                p3 \in { Pass(p2, left) :
                    p2 \in { Sift(p1) :
                        p1 \in { Decay(p0, idx, root) : p0 \in {p} } } } })

\* NodePool.NextNode: the node at the root, whatever its state
NextNode(p) == NodeAt(p, 0)

\* A variant of SetProps that doubles the weight of every reachable node.
SetPropsAlwaysDoubles(p, n, status) ==
    [p EXCEPT !.active[n] = status,
              !.weight[n] = IF ~status THEN Third(@) ELSE Double(@)]

\* Node.SetProps(status) on node n
SetProps(p, n, status) ==
    [p EXCEPT !.active[n] = status,
              !.weight[n] = IF ~status THEN Third(@)
                            ELSE IF Less(@, One) THEN Double(@)
                            ELSE @]

\* NodePool.SetNodeStatus(url, status): the node of that URL gets SetProps
SetNodeStatus(p, n, status) ==
    IF n \in 1..Len(p.nodes) THEN SetProps(p, n, status) ELSE p

\* Writes a pool value back to the shared state.
Store(p) ==
    /\ nodes' = p.nodes
    /\ active' = p.active
    /\ weight' = p.weight

\* ------------------------------------------------------------ requests
\* A worker with no request.  attempts and retries are the values
\* GetAttemptsFromContext and GetRetryFromContext return for a request that
\* carries none; node is the node whose proxy serves the request (0: none);
\* frames counts the loadBalancer calls that wait for ServeHTTP to return;
\* forwards counts the ServeHTTP calls made for the request; resp is what
\* the client was answered.
IdleReq ==
    [pc |-> "idle", attempts |-> 1, retries |-> 0, node |-> 0,
     frames |-> 0, forwards |-> 0, resp |-> "none"]

\* GetAttemptsFromContext
GetAttemptsFromContext(r) == req[r].attempts
\* GetRetryFromContext
GetRetryFromContext(r) == req[r].retries

\* ---------------------------------------------------------------- Init
\* main: one node per configured URL, appended in order, active, weight 1.
InitPool(n) ==
    /\ nodes = [i \in 1..n |-> i]
    /\ active = [i \in 1..n |-> TRUE]
    /\ weight = [i \in 1..n |-> One]

InitRest ==
    /\ req = [r \in Workers |-> IdleReq]
    /\ hpc = "wait"
    /\ hi = 0
    /\ hn = 0
    /\ started = 0
    /\ cycles = 0
    /\ probed = <<>>
    /\ stk = [t \in Threads |-> <<>>]
    /\ lock = {}
    /\ hw = One

Init ==
    /\ \E n \in 1..MaxNodes : InitPool(n)
    /\ InitRest

\* ------------------------------------------------------------- actions
\* loadBalancer: if attempts > 3 { ... return }
Rejects(attempts) == attempts > AttemptsLimit

\* A variant of MayRetry that allows one retry more.
MayRetryInclusive(retries) == retries <= RetryLimit

\* A variant of MayRetry that never gives up on the node.
MayRetryAlways(retries) == TRUE

\* ErrorHandler: if retries < 3 { ... retry the same proxy ... return }
MayRetry(retries) == retries < RetryLimit

\* A variant of MarksDead that tests the incremented attempts.
MarksDeadIncremented(attempts) == attempts + 1 >= DeadAfter

\* ErrorHandler: if attempts >= 3 { nodePool.SetNodeStatus(nodeURLParsed, false) }
MarksDead(attempts) == attempts >= DeadAfter

\* A worker that handles no request.
Free(r) == req[r].pc \in {"idle", "done"}

\* A request arrives and the server hands it to loadBalancer on a worker of
\* its own (the free worker of least number: workers are interchangeable).
Arrive(r) ==
    /\ Free(r)
    /\ \A q \in Workers : q < r => ~Free(q)
    /\ started + cycles < MaxEvents
    /\ started' = started + 1
    /\ req' = [req EXCEPT ![r] = [IdleReq EXCEPT !.pc = "dispatch"]]
    /\ UNCHANGED <<poolVars, healthVars, probed, fineVars>>

\* loadBalancer, from its entry to the call of node.ReverseProxy.ServeHTTP:
\* reject when attempts > 3, else take NextNode and forward through its proxy.
\* (NextNode never returns nil, so the "no nodes available" answer that
\* follows the node != nil test is never given.)
Dispatch(r) ==
    /\ req[r].pc = "dispatch"
    /\ IF Rejects(GetAttemptsFromContext(r))
       THEN req' = [req EXCEPT ![r].resp = "503", ![r].pc = "unwind"]
       ELSE IF NextNode(Pool) # 0
       THEN req' = [req EXCEPT ![r].node = NextNode(Pool),
                               ![r].frames = @ + 1,
                               ![r].forwards = @ + 1,
                               ![r].pc = "forward"]
       ELSE req' = [req EXCEPT ![r].resp = "503", ![r].pc = "unwind"]
    /\ UNCHANGED <<poolVars, healthVars, started, probed, fineVars>>

\* ServeHTTP forwards the request and the backend answers: the proxy streams
\* the answer back and returns to the loadBalancer call that invoked it.
ForwardOk(r) ==
    /\ req[r].pc = "forward"
    /\ req' = [req EXCEPT ![r].resp = "ok", ![r].pc = "unwind"]
    /\ UNCHANGED <<poolVars, healthVars, started, probed, fineVars>>

\* ServeHTTP fails and the proxy's ErrorHandler finds retries < 3: after
\* 10 ms it calls the same proxy again with Retry = retries + 1.
Retry(r) ==
    /\ req[r].pc = "forward"
    /\ MayRetry(GetRetryFromContext(r))
    /\ req' = [req EXCEPT ![r].retries = @ + 1, ![r].forwards = @ + 1]
    /\ UNCHANGED <<poolVars, healthVars, started, probed, fineVars>>

\* ServeHTTP fails and the ErrorHandler finds the retries used up: it sets
\* Attempts = attempts + 1 in the context it derives from the request's (which
\* keeps its Retry value), marks its node dead when attempts >= 3, and calls
\* loadBalancer again.
Failover(r) ==
    /\ req[r].pc = "forward"
    /\ ~MayRetry(GetRetryFromContext(r))
    /\ req' = [req EXCEPT ![r].attempts = @ + 1, ![r].pc = "dispatch"]
    /\ IF MarksDead(GetAttemptsFromContext(r))
       THEN Store(SetNodeStatus(Pool, req[r].node, FALSE))
       ELSE UNCHANGED poolVars
    /\ UNCHANGED <<healthVars, started, probed, fineVars>>

\* ServeHTTP has returned to a waiting loadBalancer call, which runs
\* nodePool.Heapify(0, true) and returns.  When the outermost call returns the
\* handler is done: the request's context is gone and only the answer stays.
RootRepair(r) ==
    /\ req[r].pc = "unwind"
    /\ req[r].frames > 0
    /\ Store(Heapify(Pool, 0, TRUE))
    /\ req' = [req EXCEPT ![r] = IF req[r].frames = 1
                                 THEN [IdleReq EXCEPT !.pc = "done",
                                                      !.resp = req[r].resp]
                                 ELSE [@ EXCEPT !.frames = @ - 1]]
    /\ UNCHANGED <<healthVars, started, probed, fineVars>>

\* healthCheck: the ticker fires and NodePool.HealthCheck starts its loop.
Tick ==
    /\ hpc = "wait"
    /\ started + cycles < MaxEvents
    /\ cycles' = cycles + 1
    /\ hpc' = "read"
    /\ hi' = 0
    /\ hn' = 0
    /\ probed' = <<>>
    /\ UNCHANGED <<poolVars, req, started, fineVars>>

\* HealthCheck: the loop takes n = np.nodes[i] and starts probing it.
HealthRead ==
    /\ hpc = "read"
    /\ hn' = NodeAt(Pool, hi)
    /\ hpc' = "set"
    /\ UNCHANGED <<poolVars, req, started, hi, cycles, probed, fineVars>>

\* HealthCheck: the end of one iteration of the loop.
HealthAdvance ==
    IF hi + 1 < N
    THEN hpc' = "read" /\ hi' = hi + 1 /\ hn' = 0
    ELSE hpc' = "wait" /\ hi' = 0 /\ hn' = 0

\* HealthCheck: n.Status() answers and n.SetProps(status) is applied.
HealthSet ==
    /\ hpc = "set"
    /\ \E status \in BOOLEAN :
          /\ Store(SetProps(Pool, hn, status))
          /\ IF status
             THEN HealthAdvance
             ELSE hpc' = "repair" /\ UNCHANGED <<hi, hn>>
    /\ probed' = Append(probed, hn)
    /\ UNCHANGED <<req, started, cycles, fineVars>>

\* HealthCheck: np.Heapify(uint64(i), false) for a node found dead.
HealthRepair ==
    /\ hpc = "repair"
    /\ Store(Heapify(Pool, hi, FALSE))
    /\ HealthAdvance
    /\ UNCHANGED <<req, started, cycles, probed, fineVars>>

Next ==
    \/ \E r \in Workers : Arrive(r)
    \/ \E r \in Workers : Dispatch(r)
    \/ \E r \in Workers : ForwardOk(r)
    \/ \E r \in Workers : Retry(r)
    \/ \E r \in Workers : Failover(r)
    \/ \E r \in Workers : RootRepair(r)
    \/ Tick
    \/ HealthRead
    \/ HealthSet
    \/ HealthRepair

Spec == Init /\ [][Next]_vars

\* The same system with a pool of WideNodes nodes.
InitWide ==
    /\ InitPool(WideNodes)
    /\ InitRest

WideSpec == InitWide /\ [][Next]_vars

TypeOK ==
    /\ N >= 1
    /\ {nodes[i] : i \in 1..N} = Ids
    /\ started + cycles <= MaxEvents \/ started <= SeqCap

\* --------------------------------------------- the sequential scenario
\* Requests handled one after the other by one worker, every forward
\* succeeding, no health check: a pool of 3 or more nodes, all active with
\* weight 1.  The request counter saturates at SeqCap and requests keep coming.
InitSeq ==
    /\ \E n \in 3..MaxNodes : InitPool(n)
    /\ InitRest

ArriveSeq(r) ==
    /\ Free(r)
    /\ started' = IF started < SeqCap THEN started + 1 ELSE started
    /\ req' = [req EXCEPT ![r] = [IdleReq EXCEPT !.pc = "dispatch"]]
    /\ UNCHANGED <<poolVars, healthVars, probed, fineVars>>

NextSeq ==
    \/ ArriveSeq(1)
    \/ Dispatch(1)
    \/ ForwardOk(1)
    \/ RootRepair(1)

SeqSpec == InitSeq /\ [][NextSeq]_vars /\ WF_vars(NextSeq)

\* ------------------------------------------ the handler, to its end
\* Requests handled one after the other by one worker, every forward free to
\* succeed or fail.  The handler never waits for another goroutine (a node's
\* lock is held for the few statements of SetProps, isActive or getWeight
\* only), a call of ServeHTTP returns (the backend answers or the transport
\* gives up), the 10 ms wait before a retry ends, and the Go scheduler runs
\* every runnable goroutine: the handler's next step is always taken in the
\* end.
HandlerStep(r) ==
    \/ Dispatch(r)
    \/ ForwardOk(r)
    \/ Retry(r)
    \/ Failover(r)
    \/ RootRepair(r)

NextLive ==
    \/ Arrive(1)
    \/ HandlerStep(1)

LiveSpec == Init /\ [][NextLive]_vars /\ WF_vars(HandlerStep(1))

\* ------------------------------------------- Heapify on any pool
\* The states a node can be in that FrameSpec draws from: weight and active
\* flag as calls of SetProps and root repairs leave them (an inactive node
\* was divided by 3 last, an active one was left, doubled or halved).
FrameStates ==
    { [w |-> One, a |-> TRUE],
      [w |-> Half(One), a |-> TRUE],
      [w |-> Double(Third(One)), a |-> TRUE],
      [w |-> Third(One), a |-> FALSE],
      [w |-> Third(Third(One)), a |-> FALSE] }

\* The health check is about to call np.Heapify(uint64(i), false), for any
\* pool of up to FrameNodes nodes in any of these states and any index i.
InitFrame ==
    /\ \E n \in 1..FrameNodes : \E f \in [1..n -> FrameStates] :
          /\ nodes = [k \in 1..n |-> k]
          /\ active = [k \in 1..n |-> f[k].a]
          /\ weight = [k \in 1..n |-> f[k].w]
    /\ hi \in 0..(N - 1)
    /\ hn \in {k \in Ids : ~active[k]}
    /\ hpc = "repair"
    /\ req = [r \in Workers |-> IdleReq]
    /\ started = 0
    /\ cycles = 1
    /\ probed = <<hn>>
    /\ stk = [t \in Threads |-> <<>>]
    /\ lock = {}
    /\ hw = One

FrameSpec == InitFrame /\ [][HealthRepair]_vars

\* ------------------------------------- Heapify, statement by statement
\* RaceSpec runs Heapify as the goroutines run it: one action per statement,
\* the statements of the request workers and of the health monitor
\* interleaved.  Nothing serialises Heapify calls.  isActive and getWeight
\* read under the node's RWMutex (taken shared), SetProps writes under it
\* (taken exclusively); Heapify's own "weight /= 2" and "weight *= 2" and the
\* three assignments of Swap take no lock.  A read-modify-write of a weight is
\* a load and a store with other goroutines' statements in between; the
\* conditions of lines 82, 86, 99 and 103 are evaluated in one step each.

\* One call of Heapify(idx, root) in progress: pc is the statement it is at,
\* largest its local of that name, p the node whose weight line 79 halved,
\* q the node line 92 is doubling, w the weight loaded last, temp the local
\* of Swap (0 where a node local holds nothing).  A call with root false on
\* a position without children finds every condition false on its bounds
\* test and reads nothing of the pool: it starts at its return.
NewFrame(idx, root) ==
    [idx |-> idx, root |-> root,
     pc |-> IF root THEN "decay"
            ELSE IF 2 * idx + 1 < N THEN "compare"
            ELSE "return",
     largest |-> idx, p |-> 0, q |-> 0, w |-> One, temp |-> 0]

\* The innermost call of thread t.
Top(t) == stk[t][Len(stk[t])]

InHeapify(t, pc) == stk[t] # <<>> /\ Top(t).pc = pc

\* The innermost call of thread t goes on as frame f.
Goto(t, f) == stk' = [stk EXCEPT ![t][Len(stk[t])] = f]

\* A variant of Call that calls Heapify on the caller's own position.
CallSame(t, f, idx) ==
    stk' = [stk EXCEPT ![t] = Append([@ EXCEPT ![Len(@)] = f],
                                     [idx |-> f.idx, root |-> FALSE,
                                      pc |-> "compare", largest |-> f.idx,
                                      p |-> 0, q |-> 0, w |-> One,
                                      temp |-> 0])]

\* The innermost call of thread t goes on as frame f and calls
\* Heapify(idx, false).
Call(t, f, idx) ==
    stk' = [stk EXCEPT ![t] = Append([@ EXCEPT ![Len(@)] = f],
                                     NewFrame(idx, FALSE))]

\* Node n's mutex is not held exclusively: RLock succeeds at once.
Unlocked(n) == \A l \in lock : l.node # n

\* The mutexes of the nodes at the positions in ps (those inside the array)
\* can be taken shared: a step that reads through isActive or getWeight
\* waits until they can.
Readable(ps) == \A i \in ps : i < N => Unlocked(NodeAt(Pool, i))

\* Line 79, the load of np.nodes[idx].weight /= 2.
DecayLoad(t) ==
    /\ InHeapify(t, "decay")
    /\ LET f == Top(t)
           n == NodeAt(Pool, f.idx)
       IN  Goto(t, [f EXCEPT !.p = n, !.w = weight[n], !.pc = "decayStore"])
    /\ UNCHANGED <<poolVars, req, healthVars, started, probed, lock, hw>>

\* Line 79, the store of np.nodes[idx].weight /= 2.
DecayStore(t) ==
    /\ InHeapify(t, "decayStore")
    /\ LET f == Top(t)
       IN  /\ weight' = [weight EXCEPT ![f.p] = Half(f.w)]
           /\ Goto(t, [f EXCEPT !.w = One, !.pc = "compare"])
    /\ UNCHANGED <<nodes, active, req, healthVars, started, probed, lock, hw>>

\* Lines 82-90: largest among idx and its children, and the test largest != idx.
Compare(t) ==
    /\ InHeapify(t, "compare")
    /\ LET f == Top(t)
           largest == Largest(Pool, f.idx)
       IN  /\ Readable(IF 2 * f.idx + 1 < N
                       THEN {f.idx, 2 * f.idx + 1, 2 * f.idx + 2}
                       ELSE {})
           /\ Goto(t, [f EXCEPT !.largest = largest,
                                !.p = IF largest # f.idx /\ f.root
                                      THEN @ ELSE 0,
                                !.pc = IF largest = f.idx THEN "passLeft"
                                       ELSE IF f.root THEN "undo"
                                       ELSE "swap"])
    /\ UNCHANGED <<poolVars, req, healthVars, started, probed, lock, hw>>

\* Line 92, the load of np.nodes[idx].weight *= 2.
UndoLoad(t) ==
    /\ InHeapify(t, "undo")
    /\ LET f == Top(t)
           n == NodeAt(Pool, f.idx)
       IN  Goto(t, [f EXCEPT !.q = n, !.w = weight[n], !.pc = "undoStore"])
    /\ UNCHANGED <<poolVars, req, healthVars, started, probed, lock, hw>>

\* Line 92, the store of np.nodes[idx].weight *= 2.
UndoStore(t) ==
    /\ InHeapify(t, "undoStore")
    /\ LET f == Top(t)
       IN  /\ weight' = [weight EXCEPT ![f.q] = Double(f.w)]
           /\ Goto(t, [f EXCEPT !.p = 0, !.q = 0, !.w = One, !.pc = "swap"])
    /\ UNCHANGED <<nodes, active, req, healthVars, started, probed, lock, hw>>

\* Swap(largest, idx), line 67: temp := np.nodes[i]
SwapLoad(t) ==
    /\ InHeapify(t, "swap")
    /\ LET f == Top(t)
       IN  Goto(t, [f EXCEPT !.temp = NodeAt(Pool, f.largest),
                             !.pc = "swapMove"])
    /\ UNCHANGED <<poolVars, req, healthVars, started, probed, lock, hw>>

\* Swap(largest, idx), line 68: np.nodes[i] = np.nodes[j]
SwapMove(t) ==
    /\ InHeapify(t, "swapMove")
    /\ LET f == Top(t)
       IN  /\ nodes' = [nodes EXCEPT ![f.largest + 1] = NodeAt(Pool, f.idx)]
           /\ Goto(t, [f EXCEPT !.pc = "swapStore"])
    /\ UNCHANGED <<active, weight, req, healthVars, started, probed, lock, hw>>

\* Swap(largest, idx), line 69: np.nodes[j] = temp; then line 96, the call
\* np.Heapify(largest, false).
SwapStore(t) ==
    /\ InHeapify(t, "swapStore")
    /\ LET f == Top(t)
       IN  /\ nodes' = [nodes EXCEPT ![f.idx + 1] = f.temp]
           /\ Call(t, [f EXCEPT !.temp = 0, !.pc = "passLeft"], f.largest)
    /\ UNCHANGED <<active, weight, req, healthVars, started, probed, lock, hw>>

\* Lines 99-101: the corrective pass on the left child.
PassLeft(t) ==
    /\ InHeapify(t, "passLeft")
    /\ LET f == Top(t)
           left == 2 * f.idx + 1
       IN  /\ Readable({left})
           /\ IF NeedsPass(Pool, left)
              THEN Call(t, [f EXCEPT !.pc = "passRight"], left)
              ELSE Goto(t, [f EXCEPT !.pc = "passRight"])
    /\ UNCHANGED <<poolVars, req, healthVars, started, probed, lock, hw>>

\* Lines 103-105: the corrective pass on the right child.
PassRight(t) ==
    /\ InHeapify(t, "passRight")
    /\ LET f == Top(t)
           right == 2 * f.idx + 2
       IN  /\ Readable({right})
           /\ IF NeedsPass(Pool, right)
              THEN Call(t, [f EXCEPT !.pc = "return"], right)
              ELSE Goto(t, [f EXCEPT !.pc = "return"])
    /\ UNCHANGED <<poolVars, req, healthVars, started, probed, lock, hw>>

\* Line 107: a recursive call returns to the call that made it.
Return(t) ==
    /\ InHeapify(t, "return")
    /\ Len(stk[t]) > 1
    /\ stk' = [stk EXCEPT ![t] = SubSeq(@, 1, Len(@) - 1)]
    /\ UNCHANGED <<poolVars, req, healthVars, started, probed, lock, hw>>

\* loadBalancer, line 138: ServeHTTP has returned and the worker calls
\* nodePool.Heapify(0, true).
RepairCall(r) ==
    /\ req[r].pc = "unwind"
    /\ req[r].frames > 0
    /\ stk[r] = <<>>
    /\ stk' = [stk EXCEPT ![r] = <<NewFrame(0, TRUE)>>]
    /\ req' = [req EXCEPT ![r].pc = "repair"]
    /\ UNCHANGED <<poolVars, healthVars, started, probed, lock, hw>>

\* loadBalancer, line 139: Heapify(0, true) returns and so does loadBalancer.
RepairReturn(r) ==
    /\ req[r].pc = "repair"
    /\ InHeapify(r, "return")
    /\ Len(stk[r]) = 1
    /\ stk' = [stk EXCEPT ![r] = <<>>]
    /\ req' = [req EXCEPT ![r] = IF req[r].frames = 1
                                 THEN [IdleReq EXCEPT !.pc = "done",
                                                      !.resp = req[r].resp]
                                 ELSE [@ EXCEPT !.frames = @ - 1,
                                                !.pc = "unwind"]]
    /\ UNCHANGED <<poolVars, healthVars, started, probed, lock, hw>>

\* SetProps, lines 158-163 up to the load of the weight: n.Status() has
\* answered, the monitor takes the node's mutex, writes Active and loads the
\* weight.
HealthLock ==
    /\ hpc = "set"
    /\ Unlocked(hn)
    /\ \E status \in BOOLEAN : active' = [active EXCEPT ![hn] = status]
    /\ lock' = lock \cup {[node |-> hn, by |-> Monitor]}
    /\ hw' = weight[hn]
    /\ hpc' = "store"
    /\ probed' = Append(probed, hn)
    /\ UNCHANGED <<nodes, weight, req, started, cycles, hi, hn, stk>>

\* SetProps, lines 161-165: the store of the weight and the Unlock; then, for
\* a node found dead, HealthCheck's call np.Heapify(uint64(i), false) of
\* line 177.
HealthStore ==
    /\ hpc = "store"
    /\ weight' = [weight EXCEPT ![hn] = IF ~active[hn] THEN Third(hw)
                                        ELSE IF Less(hw, One) THEN Double(hw)
                                        ELSE @]
    /\ lock' = lock \ {[node |-> hn, by |-> Monitor]}
    /\ hw' = One
    /\ IF active[hn]
       THEN HealthAdvance /\ UNCHANGED stk
       ELSE /\ hpc' = "repairing"
            /\ stk' = [stk EXCEPT ![Monitor] = <<NewFrame(hi, FALSE)>>]
            /\ UNCHANGED <<hi, hn>>
    /\ UNCHANGED <<nodes, active, req, started, cycles, probed>>

\* HealthCheck, line 178: that call returns and the iteration ends.
HealthRepairReturn ==
    /\ hpc = "repairing"
    /\ InHeapify(Monitor, "return")
    /\ Len(stk[Monitor]) = 1
    /\ stk' = [stk EXCEPT ![Monitor] = <<>>]
    /\ HealthAdvance
    /\ UNCHANGED <<poolVars, req, started, cycles, probed, lock, hw>>

\* A statement of a Heapify call in progress on thread t.
HeapifyStep(t) ==
    \/ DecayLoad(t)
    \/ DecayStore(t)
    \/ Compare(t)
    \/ UndoLoad(t)
    \/ UndoStore(t)
    \/ SwapLoad(t)
    \/ SwapMove(t)
    \/ SwapStore(t)
    \/ PassLeft(t)
    \/ PassRight(t)
    \/ Return(t)

NextRace ==
    \/ \E r \in Workers : Arrive(r)
    \/ \E r \in Workers : Dispatch(r)
    \/ \E r \in Workers : ForwardOk(r)
    \/ \E r \in Workers : RepairCall(r)
    \/ \E r \in Workers : RepairReturn(r)
    \/ Tick
    \/ HealthRead
    \/ HealthLock
    \/ HealthStore
    \/ HealthRepairReturn
    \/ \E t \in Threads : HeapifyStep(t)

RaceSpec == Init /\ [][NextRace]_vars

\* The requests alone, statement by statement: the root repairs of requests
\* that complete at the same time, with no health check running.
NextWorkers ==
    \/ \E r \in Workers : Arrive(r)
    \/ \E r \in Workers : Dispatch(r)
    \/ \E r \in Workers : ForwardOk(r)
    \/ \E r \in Workers : RepairCall(r)
    \/ \E r \in Workers : RepairReturn(r)
    \/ \E r \in Workers : HeapifyStep(r)

WorkersSpec == Init /\ [][NextWorkers]_vars

\* ---------------------------------------------------- shared vocabulary
\* Worker r takes a step of kind: told by its request's position before
\* and after the step.
FailoverStep(r) == req[r].pc = "forward" /\ req'[r].pc = "dispatch"
RetryStep(r) == req[r].pc = "forward" /\ req'[r].pc = "forward" /\ req'[r] # req[r]
DispatchStep(r) == req[r].pc = "dispatch" /\ req'[r].pc # "dispatch"
RootRepairStep(r) == req[r].pc = "unwind" /\ req'[r] # req[r]
HealthSetStep == hpc = "set" /\ hpc' # "set"
HealthRepairStep == hpc = "repair" /\ hpc' # "repair"

\* Nothing of the pool changes except, possibly, node n's fields.
OnlyNodeChanges(n) ==
    /\ nodes' = nodes
    /\ \A m \in Ids : m # n => active'[m] = active[m] /\ weight'[m] = weight[m]

AnyActive == \E n \in Ids : active[n]

\* ------------------------------------------------------------------ C1
\* C1 (attempts bound): a request is answered 503 by the dispatch that is
\* entered with attempts > 3, which is the dispatch after exactly 3 failovers
\* (attempts = 4), and that dispatch forwards nothing; the 3rd failover
\* (attempts = 3) marks the failing node inactive and divides its weight by 3,
\* changing nothing else of the pool; the 1st and 2nd failover (attempts 1, 2)
\* leave the pool as it is.
C1_AttemptsBound ==
    [][\A r \in Workers :
        /\ (DispatchStep(r) /\ req[r].attempts > AttemptsLimit) =>
              /\ req'[r].resp = "503"
              /\ req'[r].pc = "unwind"
              /\ req'[r].forwards = req[r].forwards
        /\ (req[r].resp # "503" /\ req'[r].resp = "503") =>
              /\ DispatchStep(r)
              /\ req[r].attempts = AttemptsLimit + 1
              /\ req[r].frames = AttemptsLimit
        /\ FailoverStep(r) =>
              /\ req'[r].attempts = req[r].attempts + 1
              /\ req[r].attempts <= AttemptsLimit
              /\ req[r].attempts = 3 =>
                    /\ active'[req[r].node] = FALSE
                    /\ weight'[req[r].node] = Third(weight[req[r].node])
                    /\ OnlyNodeChanges(req[r].node)
              /\ req[r].attempts < 3 => UNCHANGED poolVars
    ]_vars

\* A request was rejected after its 3rd failover and the node it failed on
\* last is dead.
C1_Witness ==
    \E r \in Workers :
        /\ req[r].pc = "unwind"
        /\ req[r].resp = "503"
        /\ req[r].attempts = 4
        /\ ~active[req[r].node]

\* ------------------------------------------------------------------ C2
\* C2 (retry bound): the retries counter never exceeds 3; a retry forwards
\* again through the proxy of the same node, without a new dispatch (the
\* waiting loadBalancer calls and the attempts stay as they are) and without
\* touching the pool; and the first failover of a request (attempts 1 -> 2)
\* happens only after the node selected first was tried 4 times: once and 3
\* retries.
C2_RetryBound ==
    [][\A r \in Workers :
        /\ req'[r].retries <= RetryLimit
        /\ RetryStep(r) =>
              /\ req'[r].retries = req[r].retries + 1
              /\ req'[r].forwards = req[r].forwards + 1
              /\ req'[r].node = req[r].node
              /\ req'[r].attempts = req[r].attempts
              /\ req'[r].frames = req[r].frames
              /\ UNCHANGED poolVars
        /\ (FailoverStep(r) /\ req[r].attempts = 1) =>
              /\ req[r].retries = RetryLimit
              /\ req[r].forwards = RetryLimit + 1
              /\ req[r].frames = 1
    ]_vars

\* A first failover is about to be attempted: the first node has been
\* retried 3 times.
C2_Witness ==
    \E r \in Workers :
        /\ req[r].pc = "dispatch"
        /\ req[r].attempts = 2
        /\ req[r].retries = 3
        /\ req[r].forwards = 4

\* ------------------------------------------------------------------ C3
\* C3 (pool exhaustion): a request dispatched while no node of the pool is
\* active is answered 503 by that dispatch and is not forwarded to a node.
C3_PoolExhaustion ==
    [][\A r \in Workers :
        (DispatchStep(r) /\ ~AnyActive) =>
            /\ req'[r].resp = "503"
            /\ req'[r].pc # "forward"
            /\ req'[r].forwards = req[r].forwards
    ]_vars

\* ------------------------------------------------------------------ C4
\* C4 (decay and its undo): a root repair, Heapify(0, true), either leaves the
\* node that was at index 0 at index 0 with its weight halved, or moves it
\* away from index 0 with its weight as before; no other node's weight and no
\* active flag changes.
C4_DecayAndUndo ==
    [][\A r \in Workers :
        RootRepairStep(r) =>
            LET n0 == nodes[1]
            IN  /\ nodes'[1] = n0 => weight'[n0] = Half(weight[n0])
                /\ nodes'[1] # n0 => weight'[n0] = weight[n0]
                /\ \A m \in Ids : m # n0 => weight'[m] = weight[m]
                /\ active' = active
    ]_vars

\* A request is done, answered by a backend, and in a pool of several nodes
\* the node at the root carries a halving that stuck.
C4_Witness ==
    /\ \E r \in Workers : req[r].pc = "done" /\ req[r].resp = "ok"
    /\ N >= 2
    /\ weight[nodes[1]].e2 < 0

\* ------------------------------------------------------------------ C5
\* C5 (SetHealth result): SetProps(status) on a node of weight w sets its
\* active flag to status and its weight to w/3 when status is false, to 2w
\* when status is true and w < 1, and leaves w when status is true and
\* w >= 1; no other node changes and the order of the pool stays.  It is
\* applied by the health check to the node it probed, and by the 3rd failover
\* (with status false) to the node that failed.
C5_SetHealth ==
    [][/\ HealthSetStep =>
            LET w == weight[hn]
            IN  /\ OnlyNodeChanges(hn)
                /\ ~active'[hn] => weight'[hn] = Third(w) /\ hpc' = "repair"
                /\ active'[hn] =>
                      /\ hpc' # "repair"
                      /\ weight'[hn] = IF Less(w, One) THEN Double(w) ELSE w
       /\ \A r \in Workers :
            (FailoverStep(r) /\ MarksDead(req[r].attempts)) =>
                /\ OnlyNodeChanges(req[r].node)
                /\ active'[req[r].node] = FALSE
                /\ weight'[req[r].node] = Third(weight[req[r].node])
    ]_vars

\* The health check has just penalised the node it probed (weight 1/3), after
\* it had doubled the weight of a node it found reachable at weight 1/3.
C5_Witness ==
    /\ hpc = "repair"
    /\ ~active[hn]
    /\ weight[hn] = Third(One)
    /\ \E n \in Ids : active[n] /\ weight[n] = Double(Third(One))

\* ------------------------------------------------------------------ C6
\* Every active node weighs at least as much as each of its active children.
HeapProperty ==
    \A i \in 0..(N - 1) : \A c \in {2 * i + 1, 2 * i + 2} :
        (c < N /\ ActiveAt(Pool, i) /\ ActiveAt(Pool, c)) =>
            Leq(WeightAt(Pool, c), WeightAt(Pool, i))

\* C6 (heap property after repair): right after every Heapify call returns,
\* be it the root repair of a request or the repair of the health check, every
\* active node at a position i weighs at least as much as each active node at
\* the positions 2i+1 and 2i+2.
C6_HeapAfterRepair ==
    [][((\E r \in Workers : RootRepairStep(r)) \/ HealthRepairStep)
          => HeapProperty']_vars

\* ------------------------------------------------------------------ C7
\* C7 (active root): right after a root repair, Heapify(0, true), returns, the
\* node at index 0 is active if any node of the pool is.
C7_ActiveRoot ==
    [][(\E r \in Workers : RootRepairStep(r))
          => (AnyActive' => active'[nodes'[1]])]_vars

\* ------------------------------------------------------------------ C8
\* C8 as stated (concrete scenario): in a pool of 3 active nodes of weight 1,
\* the first request is forwarded to node 1 (the first configured); when it is
\* done node 1 has weight 1/2 and one of its siblings is at index 0; the
\* second request is forwarded to the node then at index 0.
C8_ScenarioAsStated ==
    N = 3 =>
        /\ (started = 1 /\ req[1].pc = "forward") => req[1].node = 1
        /\ (started = 1 /\ req[1].pc = "done") =>
              weight[1] = Half(One) /\ nodes[1] \in {2, 3}
        /\ (started = 2 /\ req[1].pc = "forward") =>
              req[1].node \in {2, 3}

\* C8 as amended: in a pool of 3 active nodes of weight 1, the first request
\* is forwarded to node 1; when it is done node 1 has weight 1 again (its
\* halving is undone as it is swapped down), its left sibling, node 2, is at
\* index 0 and the pool reads 2, 1, 3; the second request is forwarded to
\* node 2.
C8_Scenario ==
    N = 3 =>
        /\ (started = 1 /\ req[1].pc = "forward") => req[1].node = 1
        /\ (started = 1 /\ req[1].pc = "done") =>
              /\ weight[1] = One
              /\ nodes = <<2, 1, 3>>
              /\ \A n \in Ids : weight[n] = One /\ active[n]
        /\ (started = 2 /\ req[1].pc = "forward") => req[1].node = 2

\* The second request of the scenario is being forwarded to node 2.
C8_Witness ==
    /\ N = 3
    /\ started = 2
    /\ req[1].pc = "forward"
    /\ req[1].node = 2
    /\ nodes = <<2, 1, 3>>

\* ------------------------------------------------------------------ C9
\* The most ServeHTTP calls the two ceilings allow for one request.
ForwardsCeiling == (RetryLimit + 1) * AttemptsLimit

\* C9 (request termination): a request is forwarded at most
\* (3 + 1) * 3 times; a failed forward answers nothing to the caller, it is
\* retried or failed over; the only answers are a successful forward and the
\* 503 of a dispatch entered with attempts > 3; and every request that is
\* dispatched is eventually done with one of those two answers.
C9_Termination ==
    /\ [](\A r \in Workers :
            /\ req[r].forwards <= ForwardsCeiling
            /\ req[r].resp \in {"none", "ok", "503"}
            /\ req[r].pc = "done" => req[r].resp \in {"ok", "503"}
            /\ req[r].pc \in {"dispatch", "forward"} => req[r].resp = "none"
            /\ (req[r].pc = "unwind" /\ req[r].resp = "503") =>
                  req[r].attempts > AttemptsLimit)
    /\ [][\A r \in Workers :
            (RetryStep(r) \/ FailoverStep(r)) => req'[r].resp = "none"]_vars
    /\ \A r \in Workers :
            (req[r].pc = "dispatch") ~> (req[r].pc = "done")

\* A request whose forwards all failed is done, answered 503.
C9_Witness ==
    req[1].pc = "done" /\ req[1].resp = "503"

\* ----------------------------------------------------------------- C10
\* C10 (load spreading): with requests handled one after the other, every
\* forward succeeding and no health check, every node of a pool of 3 or more
\* nodes of weight 1 is eventually selected.
C10_LoadSpreading ==
    \A n \in 1..MaxNodes :
        <>(n \notin Ids \/ (req[1].pc = "forward" /\ req[1].node = n))

\* ----------------------------------------------------------------- C11
\* C11 (retries reset on failover): a failover re-enters dispatch with
\* attempts incremented by 1 and retries equal to 0, and the node selected by
\* that dispatch is retried too: its first failed forward is followed by a
\* retry, not by the next failover.
C11_RetriesReset ==
    [][\A r \in Workers :
        /\ FailoverStep(r) =>
              /\ req'[r].attempts = req[r].attempts + 1
              /\ req'[r].retries = 0
        /\ (DispatchStep(r) /\ req'[r].pc = "forward") => req'[r].retries = 0
    ]_vars

\* ----------------------------------------------------------------- C12
\* C12 (root repair only on success): Heapify(0, true) runs for a request only
\* after a forward of it succeeded, and once per request: no loadBalancer
\* call but the one that runs it is waiting for ServeHTTP to return.
C12_RepairOnSuccess ==
    [][\A r \in Workers :
        RootRepairStep(r) =>
            /\ req[r].resp = "ok"
            /\ req[r].frames = 1
            /\ req'[r].pc = "done"
    ]_vars

\* ----------------------------------------------------------------- C13
\* C13 (failover changes node): the dispatch re-entered by a failover, when
\* the pool holds an active node other than the one that exhausted its
\* retries, forwards to a node other than that one; and a failover that marks
\* its node inactive leaves the pool as a heap repair at that node's position
\* leaves it.
C13_FailoverChangesNode ==
    [][\A r \in Workers :
        /\ (DispatchStep(r) /\ req[r].attempts > 1 /\ req'[r].pc = "forward"
                /\ \E n \in Ids : n # req[r].node /\ active[n]) =>
              req'[r].node # req[r].node
        /\ (FailoverStep(r) /\ MarksDead(req[r].attempts)) =>
              \E i \in 0..(N - 1) :
                  /\ nodes[i + 1] = req[r].node
                  /\ Pool' = Heapify(SetNodeStatus(Pool, req[r].node, FALSE),
                                     i, FALSE)
    ]_vars

\* ----------------------------------------------------------------- C14
\* C14 (health cycle coverage): within one health-check cycle no node is
\* probed (and given its SetProps call) twice, and when the cycle ends every
\* node of the pool has been probed once; the repair that follows an
\* unreachable probe is called at the index the probed node occupies; and no
\* repair follows a reachable probe.
C14_CycleCoverage ==
    [][/\ HealthSetStep =>
            /\ \A k \in 1..Len(probed) : probed[k] # hn
            /\ active'[hn] => hpc' # "repair"
       /\ HealthRepairStep => nodes[hi + 1] = hn
       /\ (hpc # "wait" /\ hpc' = "wait") =>
            /\ Len(probed') = N
            /\ {probed'[k] : k \in 1..Len(probed')} = Ids
    ]_vars

\* ----------------------------------------------------------------- C15
\* Thread t is inside a read-modify-write of node n's weight: it has loaded
\* the weight and has not stored it yet.
Writing(t, n) ==
    \/ t = Monitor /\ hpc = "store" /\ hn = n
    \/ InHeapify(t, "decayStore") /\ Top(t).p = n
    \/ InHeapify(t, "undoStore") /\ Top(t).q = n

\* C15 (locking discipline): a node's weight is only written while the
\* node's mutex is held exclusively, by SetProps and by the halving and the
\* doubling-back of Heapify alike; and no two threads are inside a
\* read-modify-write of the same node's weight at the same time.
C15_LockDiscipline ==
    /\ [][\A n \in Ids :
            weight'[n] # weight[n] => \E l \in lock : l.node = n]_vars
    /\ [](\A n \in Ids : \A t1, t2 \in Threads :
            (Writing(t1, n) /\ Writing(t2, n)) => t1 = t2)

\* ----------------------------------------------------------------- C16
\* The depth of position i in the implicit tree.
RECURSIVE Depth(_)
Depth(i) == IF i = 0 THEN 0 ELSE 1 + Depth((i - 1) \div 2)

Max(a, b) == IF a < b THEN b ELSE a

\* The statements a call has ahead of it in its own body, counted from the
\* statement it is at along the longest path.
OwnSteps(pc) ==
    CASE pc = "return" -> 1
      [] pc = "passRight" -> 2
      [] pc = "passLeft" -> 3
      [] pc = "swapStore" -> 4
      [] pc = "swapMove" -> 5
      [] pc = "swap" -> 6
      [] pc = "undoStore" -> 7
      [] pc = "undo" -> 8
      [] pc = "compare" -> 9
      [] pc = "decayStore" -> 10
      [] pc = "decay" -> 11

RECURSIVE Cost(_)
\* A ceiling on the statements of a call Heapify(i, false), the calls it makes
\* included: those on the larger child, on the left and on the right child.
Cost(i) ==
    IF i >= N THEN 0
    ELSE IF 2 * i + 1 >= N THEN OwnSteps("return")
    ELSE OwnSteps("compare")
           + Max(Cost(2 * i + 1), Cost(2 * i + 2))
           + Cost(2 * i + 1) + Cost(2 * i + 2)

\* A ceiling on the statements the call in frame f has ahead of it, the calls
\* it has yet to make included.
Ahead(f) ==
    OwnSteps(f.pc)
      + (IF f.pc \in {"return", "passRight", "passLeft"} THEN 0
         ELSE Max(Cost(2 * f.idx + 1), Cost(2 * f.idx + 2)))
      + (IF f.pc \in {"return", "passRight"} THEN 0 ELSE Cost(2 * f.idx + 1))
      + (IF f.pc = "return" THEN 0 ELSE Cost(2 * f.idx + 2))

RECURSIVE SumAhead(_)
SumAhead(s) == IF s = <<>> THEN 0 ELSE Ahead(Head(s)) + SumAhead(Tail(s))

\* The variant of thread t: what its Heapify calls in progress have ahead.
Rank(t) == SumAhead(stk[t])

C17_Permutation ==
    (\A t \in Threads : stk[t] = <<>>) =>
        \A n \in Ids : Cardinality({i \in 1..Len(nodes) : nodes[i] = n}) = 1

\* ----------------------------------------------------------------- C18
\* C18 (weight bounds): every node's weight stays below 2 (it is positive by
\* its form 2^a / 3^b), and the doubling-back of Heapify is stored to the node
\* whose weight the same call halved.
C18_WeightBounds ==
    /\ [](\A n \in Ids : Less(weight[n], Double(One)))
    /\ [][\A t \in Threads :
            (InHeapify(t, "undoStore") /\ stk'[t] # stk[t]) =>
                Top(t).q = Top(t).p]_vars

\* ----------------------------------------------------------------- C19
\* Position i lies in the subtree rooted at position idx.
RECURSIVE Descends(_, _)
Descends(i, idx) ==
    \/ i = idx
    \/ i > idx /\ Descends((i - 1) \div 2, idx)

\* C19 (frame of the non-root repair): Heapify(idx, false), run without
\* interleaving, changes no weight and no active flag, leaves the node at
\* every position outside the subtree rooted at idx where it was, and leaves
\* inside that subtree the nodes that were there.
C19_NonRootFrame ==
    [][HealthRepairStep =>
        /\ weight' = weight
        /\ active' = active
        /\ Len(nodes') = N
        /\ \A i \in 0..(N - 1) : ~Descends(i, hi) => nodes'[i + 1] = nodes[i + 1]
        /\ {nodes'[i + 1] : i \in {j \in 0..(N - 1) : Descends(j, hi)}}
              = {nodes[i + 1] : i \in {j \in 0..(N - 1) : Descends(j, hi)}}
    ]_vars

\* The repair at index 1 of a pool of 4 has swapped the nodes at the positions
\* 1 and 3, next to the positions 0 and 2 outside its subtree.
C19_Witness ==
    /\ N = 4
    /\ cycles = 1
    /\ started = 0
    /\ hpc = "read"
    /\ hi = 2
    /\ nodes = <<1, 4, 3, 2>>
==========================================================================
